---- MODULE Spec2Model ----
(***************************************************************************)
(* Model of the contract verifier plugin (class Verifier): the retrying    *)
(* entry point call(), one verification attempt verify(), and the build    *)
(* info trimming that computes the import closure of a contract's source.  *)
(***************************************************************************)
EXTENDS Integers, Sequences, FiniteSets, TLC

VARIABLES
    store,        \* the build-info files on disk, in readdir order
    name,         \* call(name, ...): the contract name
    address,      \* call(..., address, ...)
    args,         \* call(..., constructorArguments, ...)
    pc,           \* position of the flow inside call()/verify()
    intent,       \* call(): the intent parameter of the running invocation
    logged,       \* the attempt numbers printed by the retry log line
    attempts,     \* number of invocations of verify()
    fetches,      \* number of eth_getCode requests sent to the provider
    posts,        \* number of POSTs sent to the verification service
    awaited,      \* number of awaited delay(5000) that completed
    timers,       \* number of delay(5000) started and never awaited
    deployed,     \* what the provider answered, one entry per fetch
    replies,      \* what the service answered, one entry per POST
    bytecode,     \* verify(): deployedBytecode
    buildInfo,    \* verify(): the build info selected for this attempt
    info,         \* verify(): contractInformation
    encodedArgs,  \* verify(): deployArgumentsEncoded
    request,      \* attemptVerification(): the request object
    result,       \* how the awaited verify() settled
    outcome,      \* how the promise returned by call() settled
    cInput,       \* trimming run: the compiler input
    cName,        \* trimming run: the contract name
    cOut,         \* trimming run: what trimming produced
    cSeed,        \* trimming run: the source the closure is computed again from
    cRe,          \* trimming run: the closure computed from cSeed
    iStore,       \* lookup run: the build infos, in load order
    iName,        \* lookup run: the contract name
    iOut,         \* lookup run: what findBuildInfoWithContract produced
    cwd,          \* the working directory: the request dumps ./<contract_name>.json
    flows         \* two flows side by side: the state of each

vars == <<store, name, address, args, pc, intent, logged, attempts, fetches,
          posts, awaited, timers, deployed, replies, bytecode, buildInfo,
          info, encodedArgs, request, result, outcome, cInput, cName,
          cOut, cSeed, cRe, iStore, iName, iOut, cwd, flows>>

callVars == <<store, name, address, args, pc, intent, logged, attempts,
              fetches, posts, awaited, timers, deployed, replies, bytecode,
              buildInfo, info, encodedArgs, request, result, outcome, cwd>>

\* the variables of one flow that are not on disk
soloVars == <<store, name, address, args, pc, intent, logged, attempts,
              fetches, posts, awaited, timers, deployed, replies, bytecode,
              buildInfo, info, encodedArgs, request, result, outcome>>

\* the variables of the runs of single functions, but the flows
fnVars == <<cInput, cName, cOut, cSeed, cRe, iStore, iName, iOut>>

\* the variables of the runs of single functions
unitVars == <<cInput, cName, cOut, cSeed, cRe, iStore, iName, iOut, flows>>

----------------------------------------------------------------------------
(* Bounds of the model.                                                    *)

MaxSources == 3
MaxImports == 3
CallMaxSources == 2
CallMaxImports == 1
MaxRecords == 1
MaxCount == 4
IndexMaxRecords == 2
IndexMaxSources == 1
IndexMaxImports == 0

(* Program constants.                                                      *)

MAX_VERIFICATION_INTENTS == 3

----------------------------------------------------------------------------
(* Values.                                                                 *)

None == [none |-> TRUE]

Dirs == {"d1", "d2"}
Files == {"A", "B", "C"}
NoDir == "nodir"

\* a source name of a compiler input: <dir>/<file>.sol
Keys == [dir : Dirs, file : Files]

\* the path of an import directive; dir = NoDir is a path the pattern
\* .*\/(\w*)\.sol does not match (no '/' before the file name)
ImportPaths == [dir : {"d1", NoDir}, file : Files]

ClosureKeys == {k \in Keys : k.dir = "d1" \/ k.file = "A"}

ClosurePaths == {p \in ImportPaths : p.dir # NoDir \/ p.file = "A"}

CallKeys == {k \in Keys : k.dir = "d1" /\ k.file \in {"A", "B"}}

CallPaths == {p \in ImportPaths : p.dir # NoDir /\ p.file = "B"}

ContractNames == {"A", "B"}

Addresses == {"0xA1", "0xA2"}

\* the deployed code an address can have, and no code
Codes == {"c1", "c2"}
Absent == "absent"
NoCode == "none"

\* constructor arguments: pre-encoded string, or raw values
ArgValues == {[encoded |-> TRUE, v |-> "args"], [encoded |-> FALSE, v |-> "args"]}

\* replies of the verification service to a POST: 2xx with success:true,
\* 2xx with success:false, non-2xx, or no reply at all; transient tells
\* whether the message is the "bytecode not found" one
Replies ==
    [kind : {"rejected", "http"}, transient : BOOLEAN]
        \cup [kind : {"ok", "transport"}, transient : {FALSE}]

\* the working directory before any request was dumped
NoFiles == [n \in ContractNames |-> None]

\* the two flows of the side-by-side run, before call() is invoked
FlowIds == {1, 2}

IdleFlow ==
    [pc |-> "idle", name |-> "A", address |-> "0xA1", intent |-> 1,
     bytecode |-> NoCode, request |-> None, response |-> None]

IdleFlows == [f \in FlowIds |-> IdleFlow]

Min(S) == CHOOSE x \in S : \A y \in S : x <= y

SeqsUpTo(S, n) == UNION {[1..k -> S] : k \in 0..n}

Range(s) == {s[i] : i \in DOMAIN s}

NoDup(s) == \A i, j \in DOMAIN s : s[i] = s[j] => i = j

Return(v) == [ok |-> TRUE, val |-> v]

Throw(e) == [ok |-> FALSE, err |-> e]

Settings == [optimizer |-> [enabled |-> TRUE, runs |-> 200], libraries |-> None]

\* the sequences of at most n distinct source names
KeySeqs(keys, n) == {q \in SeqsUpTo(keys, n) : NoDup(q)}

\* the non-decreasing maps 1..m -> 1..n: which source each directive is in
Mono(m, n) == {f \in [1..m -> 1..n] : \A i \in 1..m : \A j \in i..m : f[i] <= f[j]}

\* a compiler input: an ordered mapping source name -> content, the content
\* being the import directives it parses to (flat[j] is a directive of the
\* source number own[j])
MkInput(ks, flat, own) ==
    [language |-> "Solidity",
     sources |-> [i \in DOMAIN ks |->
        LET mine == SelectSeq([j \in DOMAIN flat |-> <<own[j], flat[j]>>],
                              LAMBDA p : p[1] = i)
        IN  [key |-> ks[i], imports |-> [j \in DOMAIN mine |-> mine[j][2]]]],
     settings |-> Settings]

SourceKeys(input) == [i \in DOMAIN input.sources |-> input.sources[i].key]

ContentOf(input, sourceName) ==
    LET i == CHOOSE i \in DOMAIN input.sources : input.sources[i].key = sourceName
    IN  input.sources[i].imports

----------------------------------------------------------------------------
(* Import Graph Resolver.                                                  *)

getContractSourceName(contractName, input) ==
    LET hits == {i \in DOMAIN input.sources : input.sources[i].key.file = contractName}
    IN  IF hits = {}
        THEN Throw([type |-> "Error", what |-> "SourceNotFound"])
        ELSE Return(input.sources[Min(hits)].key)

\* the resolution as it would be if the imported path were looked up as a
\* source name before its file name is
getAbsoluteSourcePathExact(relativeSourcePath, input) ==
    IF relativeSourcePath.dir = NoDir
    THEN Throw([type |-> "TypeError", what |-> "ImportPathNoMatch"])
    ELSE IF \E i \in DOMAIN input.sources : input.sources[i].key = relativeSourcePath
    THEN Return(relativeSourcePath)
    ELSE getContractSourceName(relativeSourcePath.file, input)

getAbsoluteSourcePath(relativeSourcePath, input) ==
    IF relativeSourcePath.dir = NoDir
    THEN Throw([type |-> "TypeError", what |-> "ImportPathNoMatch"])
    ELSE getContractSourceName(relativeSourcePath.file, input)

RECURSIVE getContractImportedSourceNames(_, _, _)
RECURSIVE VisitImports(_, _, _, _)
RECURSIVE VisitImportsShallow(_, _, _, _)
RECURSIVE VisitImportsSkipUnresolved(_, _, _, _)

\* the visit as it would be if a new source were added without being parsed
\* for its own imports
VisitImportsShallow(sourceName, input, i, st) ==
    LET imports == ContentOf(input, sourceName)
    IN  IF ~st.ok \/ i > Len(imports)
        THEN st
        ELSE LET r == getAbsoluteSourcePath(imports[i], input)
             IN  IF ~r.ok
                 THEN [st EXCEPT !.ok = FALSE, !.err = r.err]
                 ELSE VisitImportsShallow(sourceName, input, i + 1,
                        [st EXCEPT !.names = @ \cup {r.val}])

\* the visit as it would be if an import that does not resolve were skipped
VisitImportsSkipUnresolved(sourceName, input, i, st) ==
    LET imports == ContentOf(input, sourceName)
        visit(s) ==
            IF ~s.ok \/ i > Len(imports)
            THEN s
            ELSE LET r == getAbsoluteSourcePath(imports[i], input)
                 IN  IF ~r.ok
                     THEN VisitImportsSkipUnresolved(sourceName, input, i + 1, s)
                     ELSE IF r.val \notin s.names
                     THEN VisitImportsSkipUnresolved(sourceName, input, i + 1,
                            getContractImportedSourceNames(r.val, input,
                                [s EXCEPT !.names = @ \cup {r.val}]))
                     ELSE VisitImportsSkipUnresolved(sourceName, input, i + 1, s)
    IN  CHOOSE x \in {visit(s) : s \in {st}} : TRUE

\* The(S) is the element of the singleton S
The(S) == CHOOSE x \in S : TRUE

\* st = [ok, names, expanded]: names is previousSourceNames; expanded logs
\* the sources parsed so far, in order (st is evaluated once, as s)
VisitImports(sourceName, input, i, st) ==
    LET imports == ContentOf(input, sourceName)
        visit(s) ==
            IF ~s.ok \/ i > Len(imports)
            THEN s
            ELSE LET r == getAbsoluteSourcePath(imports[i], input)
                 IN  IF ~r.ok
                     THEN [s EXCEPT !.ok = FALSE, !.err = r.err]
                     ELSE IF r.val \notin s.names
                     THEN VisitImports(sourceName, input, i + 1,
                            getContractImportedSourceNames(r.val, input,
                                [s EXCEPT !.names = @ \cup {r.val}]))
                     ELSE VisitImports(sourceName, input, i + 1, s)
    IN  The({visit(s) : s \in {st}})

getContractImportedSourceNames(sourceName, input, st) ==
    VisitImports(sourceName, input, 1, [st EXCEPT !.expanded = Append(@, sourceName)])

\* the seed as it would be if the root were not added to the set
SeedEmpty(sourceName) ==
    [ok |-> TRUE, err |-> None, names |-> {}, expanded |-> <<>>]

Seed(sourceName) ==
    [ok |-> TRUE, err |-> None, names |-> {sourceName}, expanded |-> <<>>]

\* trimming as it would be if the kept sources were emitted in the order the
\* traversal parsed them
trimmedBuildInfoInputTraversalOrder(contractName, input) ==
    LET src == getContractSourceName(contractName, input)
    IN  IF ~src.ok
        THEN [ok |-> FALSE, err |-> src.err, root |-> None, names |-> {}, expanded |-> <<>>, input |-> None]
        ELSE LET c == getContractImportedSourceNames(src.val, input, Seed(src.val))
             IN  IF ~c.ok
                 THEN [ok |-> FALSE, err |-> c.err, root |-> src.val, names |-> c.names,
                       expanded |-> c.expanded, input |-> None]
                 ELSE [ok |-> TRUE, err |-> None, root |-> src.val, names |-> c.names,
                       expanded |-> c.expanded,
                       input |-> [input EXCEPT !.sources =
                                    [i \in DOMAIN c.expanded |->
                                       [key |-> c.expanded[i],
                                        imports |-> ContentOf(input, c.expanded[i])]]]]

\* trimming as it would be if the result were built from the language and
\* the kept sources, with the settings left to the compiler's defaults
trimmedBuildInfoInputSourcesOnly(contractName, input) ==
    LET src == getContractSourceName(contractName, input)
    IN  IF ~src.ok
        THEN [ok |-> FALSE, err |-> src.err, root |-> None, names |-> {}, expanded |-> <<>>, input |-> None]
        ELSE LET c == getContractImportedSourceNames(src.val, input, Seed(src.val))
             IN  IF ~c.ok
                 THEN [ok |-> FALSE, err |-> c.err, root |-> src.val, names |-> c.names,
                       expanded |-> c.expanded, input |-> None]
                 ELSE [ok |-> TRUE, err |-> None, root |-> src.val, names |-> c.names,
                       expanded |-> c.expanded,
                       input |-> [language |-> input.language,
                                  sources |-> SelectSeq(input.sources,
                                                        LAMBDA e : e.key \in c.names),
                                  settings |-> [optimizer |-> [enabled |-> FALSE, runs |-> 0],
                                                libraries |-> None]]]

\* trimming as it would be if no source were filtered out
trimmedBuildInfoInputUntrimmed(contractName, input) ==
    LET src == getContractSourceName(contractName, input)
    IN  IF ~src.ok
        THEN [ok |-> FALSE, err |-> src.err, root |-> None, names |-> {}, expanded |-> <<>>, input |-> None]
        ELSE LET c == getContractImportedSourceNames(src.val, input, Seed(src.val))
             IN  IF ~c.ok
                 THEN [ok |-> FALSE, err |-> c.err, root |-> src.val, names |-> c.names,
                       expanded |-> c.expanded, input |-> None]
                 ELSE [ok |-> TRUE, err |-> None, root |-> src.val, names |-> c.names,
                       expanded |-> c.expanded, input |-> input]

trimmedBuildInfoInput(contractName, input) ==
    LET src == getContractSourceName(contractName, input)
    IN  IF ~src.ok
        THEN [ok |-> FALSE, err |-> src.err, root |-> None, names |-> {}, expanded |-> <<>>, input |-> None]
        ELSE LET c == getContractImportedSourceNames(src.val, input, Seed(src.val))
             IN  IF ~c.ok
                 THEN [ok |-> FALSE, err |-> c.err, root |-> src.val, names |-> c.names,
                       expanded |-> c.expanded, input |-> None]
                 ELSE [ok |-> TRUE, err |-> None, root |-> src.val, names |-> c.names,
                       expanded |-> c.expanded,
                       input |-> [input EXCEPT !.sources =
                                    SelectSeq(input.sources, LAMBDA e : e.key \in c.names)]]

----------------------------------------------------------------------------
(* Artifact Index and Bytecode Matcher.                                    *)

\* a build info: the compiler input and the compiled contracts
BuildInfosOver(keys, paths, maxS, maxI) ==
    UNION { UNION { UNION {
        LET input == MkInput(ks, flat, own)
        IN  { [input |-> input, contracts |-> c, solcVersion |-> "0.7.1"] :
                c \in SeqsUpTo([sourceName : Range(ks), contractName : ContractNames,
                                code : {"c1"}], 1) }
        : own \in Mono(Len(flat), Len(ks)) }
        : flat \in SeqsUpTo(paths, maxI) }
        : ks \in KeySeqs(keys, maxS) }

getBuildInfos(files) == files

getAllFullyQualifiedNames(bi) ==
    [i \in DOMAIN bi.contracts |->
        [sourceName |-> bi.contracts[i].sourceName,
         contractName |-> bi.contracts[i].contractName]]

HasContract(bi, contractName) ==
    \E i \in DOMAIN bi.contracts : getAllFullyQualifiedNames(bi)[i].contractName = contractName

Max(S) == CHOOSE x \in S : \A y \in S : x >= y

\* the lookup as it would be if the last matching build info were returned
findBuildInfoWithContractLast(buildInfos, contractName) ==
    LET hits == {i \in DOMAIN buildInfos : HasContract(buildInfos[i], contractName)}
    IN  IF hits = {}
        THEN Throw([type |-> "Error", what |-> "BuildInfoNotFound"])
        ELSE Return(buildInfos[Max(hits)])

findBuildInfoWithContract(buildInfos, contractName) ==
    LET hits == {i \in DOMAIN buildInfos : HasContract(buildInfos[i], contractName)}
    IN  IF hits = {}
        THEN Throw([type |-> "Error", what |-> "BuildInfoNotFound"])
        ELSE Return(buildInfos[Min(hits)])

findContractSourceName(bi, contractName) ==
    LET names == getAllFullyQualifiedNames(bi)
        hits == {i \in DOMAIN names : names[i].contractName = contractName}
    IN  IF hits = {}
        THEN Throw([type |-> "Error", what |-> "ContractSourceNotFound"])
        ELSE IF Cardinality(hits) > 1
        THEN Throw([type |-> "Error", what |-> "ContractSourceAmbiguous"])
        ELSE Return(names[Min(hits)].sourceName)

\* the provider's answer to eth_getCode: an empty code is an error
retrieveContractBytecode(answer) ==
    IF answer = Absent
    THEN Throw([type |-> "PluginError", what |-> "NoBytecodeAtAddress"])
    ELSE Return(answer)

\* the contract of the build info whose runtime code is the deployed one
extractMatchingContractInformation(sourceName, contractName, bi, deployedBytecode) ==
    LET hits == {i \in DOMAIN bi.contracts :
                    /\ bi.contracts[i].sourceName = sourceName
                    /\ bi.contracts[i].contractName = contractName
                    /\ bi.contracts[i].code = deployedBytecode}
    IN  IF hits = {}
        THEN None
        ELSE [sourceName |-> sourceName, contractName |-> contractName,
              solcVersion |-> bi.solcVersion, compilerInput |-> bi.input,
              libraryLinks |-> None]

encodeArguments(a) == [encoded |-> TRUE, v |-> a.v]

----------------------------------------------------------------------------
(* Verification Submitter.                                                 *)

BrowserURL == "https://neonscan.org"

ContractURL(addr) == <<BrowserURL, "/address/", addr, "#code">>

\* the object verifyContract resolves to: the AxiosResponse of the POST
VerifyContractResponse(reply) ==
    [class |-> "AxiosResponse", status |-> 200, success |-> TRUE,
     transient |-> reply.transient]

\* the methods an object of the class has
Methods(class) ==
    IF class = "EtherscanResponse"
    THEN {"isVerificationSuccess", "isBytecodeMissingInNetworkError"}
    ELSE {}

\* verifyContract: what the POST's reply makes it throw, if anything
verifyContract(reply) ==
    CASE reply.kind = "transport" -> Throw([type |-> "TypeError", what |-> "NoErrorResponse"])
      [] reply.kind = "http"      -> Throw([type |-> "Error", what |-> "SendFailed"])
      [] reply.kind = "rejected"  -> Throw([type |-> "Error", what |-> "NotSuccess"])
      [] OTHER                    -> Return(VerifyContractResponse(reply))

Fulfilled(v) == [threw |-> FALSE, err |-> None, value |-> v]

Rejected(e) == [threw |-> TRUE, err |-> e, value |-> None]

\* call() as it would be if a rejected verify() were retried below the limit
CallBranchRetryAnyError(res, n) ==
    IF res.threw
    THEN IF n < MAX_VERIFICATION_INTENTS THEN "retry" ELSE "propagate"
    ELSE "typeerror"

\* call() as it would be if a rejected verify() were retried without limit
CallBranchRetryForever(res, n) ==
    IF res.threw THEN "retry" ELSE "typeerror"

\* call() as it would be if a failed submission were retried
CallBranchRetrySubmission(res, n) ==
    IF res.threw
    THEN IF res.err.what \in {"SendFailed", "NotSuccess", "NoErrorResponse"}
            /\ n < MAX_VERIFICATION_INTENTS
         THEN "retry" ELSE "propagate"
    ELSE "typeerror"

\* call() as it would be if a failure to locate or match the contract were
\* retried
CallBranchRetryLocal(res, n) ==
    IF res.threw
    THEN IF res.err.what \in {"BuildInfoNotFound", "SourceNotFound", "NoBytecodeMatch"}
            /\ n < MAX_VERIFICATION_INTENTS
         THEN "retry" ELSE "propagate"
    ELSE "typeerror"

\* the branch call() takes once verify() has settled
CallBranch(res, n) ==
    IF res.threw THEN "propagate"
    ELSE IF "isVerificationSuccess" \notin Methods(res.value.class) THEN "typeerror"
    ELSE IF res.value.success THEN "return"
    ELSE IF n < MAX_VERIFICATION_INTENTS THEN
        IF "isBytecodeMissingInNetworkError" \notin Methods(res.value.class) THEN "typeerror"
        ELSE IF res.value.transient THEN "retry"
        ELSE "throw"
    ELSE "throw"

----------------------------------------------------------------------------
(* One verification flow: call() and the attempts it makes.                *)

\* the Verifier is constructed and call() has not been invoked
Init ==
    /\ store = <<>>
    /\ name = "A"
    /\ address = "0xA1"
    /\ args = [encoded |-> TRUE, v |-> "args"]
    /\ pc = "idle" /\ intent = 1 /\ logged = <<>> /\ attempts = 0
    /\ fetches = 0 /\ posts = 0 /\ awaited = 0 /\ timers = 0
    /\ deployed = <<>> /\ replies = <<>> /\ bytecode = NoCode
    /\ buildInfo = None /\ info = None /\ encodedArgs = None /\ request = None
    /\ result = None /\ outcome = None
    /\ cwd = NoFiles /\ flows = IdleFlows
    /\ cInput = None /\ cName = "A" /\ cOut = None
    /\ cSeed = None /\ cRe = None
    /\ iStore = <<>> /\ iName = "A" /\ iOut = None

\* call(name, address, constructorArguments) is invoked with the default
\* intent, over the build infos the artifacts directory holds, and calls
\* verify()
Call ==
    /\ pc = "idle"
    /\ store' \in SeqsUpTo(BuildInfosOver(CallKeys, CallPaths, CallMaxSources, CallMaxImports),
                           MaxRecords)
    /\ address' \in Addresses
    /\ args' \in ArgValues
    /\ intent' = 1
    /\ attempts' = attempts + 1
    /\ pc' = "delay"
    /\ UNCHANGED <<cwd, name, logged, fetches, posts, awaited, timers, deployed, replies,
                   bytecode, buildInfo, info, encodedArgs, request, result, outcome>>
    /\ UNCHANGED unitVars

\* verify() as it would be if it went from the delay to the build infos
\* without fetching the deployed bytecode first
VerifyDelaySkipFetch ==
    /\ pc = "delay"
    /\ awaited' = awaited + 1
    /\ pc' = "load"
    /\ UNCHANGED <<cwd, store, name, address, args, intent, logged, attempts, fetches,
                   posts, timers, deployed, replies, bytecode, buildInfo, info,
                   encodedArgs, request, result, outcome>>
    /\ UNCHANGED unitVars

\* verify(): await delay(5000)
VerifyDelay ==
    /\ pc = "delay"
    /\ awaited' = awaited + 1
    /\ pc' = "getCode"
    /\ UNCHANGED <<cwd, store, name, address, args, intent, logged, attempts, fetches,
                   posts, timers, deployed, replies, bytecode, buildInfo, info,
                   encodedArgs, request, result, outcome>>
    /\ UNCHANGED unitVars

\* verify() as it would be if the bytecode were taken from a value kept by
\* the verifier instead of being fetched from the provider
RetrieveBytecodeUnfetched ==
    /\ pc = "getCode"
    /\ \E kept \in Codes :
         /\ bytecode' = kept
         /\ pc' = "load"
    /\ UNCHANGED <<cwd, store, name, address, args, intent, logged, attempts, fetches,
                   posts, awaited, timers, deployed, replies, buildInfo, info,
                   encodedArgs, request, result, outcome>>
    /\ UNCHANGED unitVars

\* verify(): await retrieveContractBytecode(address, provider, network)
RetrieveBytecode ==
    /\ pc = "getCode"
    /\ \E answer \in Codes \cup {Absent} :
         LET r == retrieveContractBytecode(answer)
         IN  /\ deployed' = Append(deployed, answer)
             /\ fetches' = fetches + 1
             /\ IF r.ok
                THEN /\ bytecode' = r.val
                     /\ pc' = "load"
                     /\ UNCHANGED result
                ELSE /\ result' = Rejected(r.err)
                     /\ pc' = "settle"
                     /\ UNCHANGED bytecode
    /\ UNCHANGED <<cwd, store, name, address, args, intent, logged, attempts, posts,
                   awaited, timers, replies, buildInfo, info, encodedArgs,
                   request, outcome>>
    /\ UNCHANGED unitVars

\* verify(): getBuildInfos, findBuildInfoWithContract, trimmedBuildInfoInput
LoadAndTrim ==
    /\ pc = "load"
    /\ \E found \in {findBuildInfoWithContract(getBuildInfos(store), name)} :
         IF ~found.ok
         THEN /\ result' = Rejected(found.err)
              /\ pc' = "settle"
              /\ UNCHANGED buildInfo
         ELSE \E trimmed \in {trimmedBuildInfoInput(name, found.val.input)} :
                IF ~trimmed.ok
                THEN /\ result' = Rejected(trimmed.err)
                     /\ pc' = "settle"
                     /\ UNCHANGED buildInfo
                ELSE /\ buildInfo' = [found.val EXCEPT !.input = trimmed.input]
                     /\ pc' = "match"
                     /\ UNCHANGED result
    /\ UNCHANGED <<cwd, store, name, address, args, intent, logged, attempts, fetches,
                   posts, awaited, timers, deployed, replies, bytecode, info,
                   encodedArgs, request, outcome>>
    /\ UNCHANGED unitVars

\* verify(): findContractSourceName, extractMatchingContractInformation
Match ==
    /\ pc = "match"
    /\ LET src == findContractSourceName(buildInfo, name)
           ci == extractMatchingContractInformation(src.val, name, buildInfo, bytecode)
       IN  IF ~src.ok
           THEN /\ result' = Rejected(src.err)
                /\ pc' = "settle"
                /\ UNCHANGED info
           ELSE IF ci = None
           THEN /\ result' = Rejected([type |-> "Error", what |-> "NoBytecodeMatch"])
                /\ pc' = "settle"
                /\ UNCHANGED info
           ELSE /\ info' = ci
                /\ pc' = "links"
                /\ UNCHANGED result
    /\ UNCHANGED <<cwd, store, name, address, args, intent, logged, attempts, fetches,
                   posts, awaited, timers, deployed, replies, bytecode, buildInfo,
                   encodedArgs, request, outcome>>
    /\ UNCHANGED unitVars

\* verify(): getLibraryLinks, encodeArguments, getLongVersion
Encode ==
    /\ pc = "links"
    /\ info' = [info EXCEPT !.libraryLinks = [links |-> "resolved"]]
    /\ encodedArgs' = IF args.encoded THEN args ELSE encodeArguments(args)
    /\ pc' = "post"
    /\ UNCHANGED <<cwd, store, name, address, args, intent, logged, attempts, fetches,
                   posts, awaited, timers, deployed, replies, bytecode, buildInfo,
                   request, result, outcome>>
    /\ UNCHANGED unitVars

\* attemptVerification() as it would be if it were passed the input of the
\* build info as loaded, not the trimmed one
SubmitUntrimmed ==
    /\ pc = "post"
    /\ LET loaded == findBuildInfoWithContract(getBuildInfos(store), name).val
           compilerInput == [loaded.input EXCEPT !.settings.libraries = info.libraryLinks]
           req == [contract_address |-> address,
                   source_code |-> [i \in DOMAIN compilerInput.sources |->
                                      [content |-> compilerInput.sources[i].imports,
                                       file_name |-> compilerInput.sources[i].key]],
                   contract_name |-> info.contractName,
                   version |-> info.solcVersion,
                   args |-> args,
                   optimization |-> compilerInput.settings.optimizer.enabled,
                   runs |-> compilerInput.settings.optimizer.runs,
                   compiler_type |-> "solidity"]
       IN  /\ request' = req
           /\ buildInfo' = [buildInfo EXCEPT !.input = compilerInput]
           /\ cwd' = [cwd EXCEPT ![req.contract_name] = req]
    /\ \E reply \in Replies :
         LET r == verifyContract(reply)
         IN  /\ replies' = Append(replies, reply)
             /\ posts' = posts + 1
             /\ IF r.ok
                THEN /\ result' = Fulfilled(r.val)
                     /\ pc' = "postdelay"
                ELSE /\ result' = Rejected(r.err)
                     /\ pc' = "settle"
    /\ UNCHANGED <<store, name, address, args, intent, logged, attempts, fetches,
                   awaited, timers, deployed, bytecode, info, encodedArgs, outcome>>
    /\ UNCHANGED unitVars

\* attemptVerification() up to the reply to verifyContract()'s POST
Submit ==
    /\ pc = "post"
    /\ LET compilerInput == [buildInfo.input EXCEPT !.settings.libraries = info.libraryLinks]
           req == [contract_address |-> address,
                   source_code |-> [i \in DOMAIN compilerInput.sources |->
                                      [content |-> compilerInput.sources[i].imports,
                                       file_name |-> compilerInput.sources[i].key]],
                   contract_name |-> info.contractName,
                   version |-> info.solcVersion,
                   args |-> args,
                   optimization |-> compilerInput.settings.optimizer.enabled,
                   runs |-> compilerInput.settings.optimizer.runs,
                   compiler_type |-> "solidity"]
       IN  /\ request' = req
           /\ buildInfo' = [buildInfo EXCEPT !.input = compilerInput]
           /\ cwd' = [cwd EXCEPT ![req.contract_name] = req]
    /\ \E reply \in Replies :
         LET r == verifyContract(reply)
         IN  /\ replies' = Append(replies, reply)
             /\ posts' = posts + 1
             /\ IF r.ok
                THEN /\ result' = Fulfilled(r.val)
                     /\ pc' = "postdelay"
                ELSE /\ result' = Rejected(r.err)
                     /\ pc' = "settle"
    /\ UNCHANGED <<store, name, address, args, intent, logged, attempts, fetches,
                   awaited, timers, deployed, bytecode, info, encodedArgs, outcome>>
    /\ UNCHANGED unitVars

\* attemptVerification(): await delay(5000), return response
PostDelay ==
    /\ pc = "postdelay"
    /\ awaited' = awaited + 1
    /\ pc' = "settle"
    /\ UNCHANGED <<cwd, store, name, address, args, intent, logged, attempts, fetches,
                   posts, timers, deployed, replies, bytecode, buildInfo, info,
                   encodedArgs, request, result, outcome>>
    /\ UNCHANGED unitVars

\* call(): the awaited verify() has settled
Settle ==
    /\ pc = "settle"
    /\ LET branch == CallBranch(result, intent)
       IN  CASE branch = "return" ->
                  /\ outcome' = Fulfilled(ContractURL(address))
                  /\ pc' = "succeeded"
                  /\ UNCHANGED <<intent, logged, attempts, timers, bytecode,
                                 buildInfo, info, encodedArgs, request, result>>
             [] branch = "retry" ->
                  /\ attempts < MaxCount
                  /\ logged' = Append(logged, intent)
                  /\ timers' = timers + 1
                  /\ intent' = intent + 1
                  /\ attempts' = attempts + 1
                  /\ pc' = "delay"
                  /\ bytecode' = NoCode /\ buildInfo' = None /\ info' = None
                  /\ encodedArgs' = None /\ request' = None /\ result' = None
                  /\ UNCHANGED outcome
             [] branch = "propagate" ->
                  /\ outcome' = Rejected(result.err)
                  /\ pc' = "failed"
                  /\ UNCHANGED <<intent, logged, attempts, timers, bytecode,
                                 buildInfo, info, encodedArgs, request, result>>
             [] branch = "typeerror" ->
                  /\ outcome' = Rejected([type |-> "TypeError", what |-> "NotAFunction"])
                  /\ pc' = "failed"
                  /\ UNCHANGED <<intent, logged, attempts, timers, bytecode,
                                 buildInfo, info, encodedArgs, request, result>>
             [] OTHER ->
                  /\ outcome' = Rejected([type |-> "Error", what |-> "VerificationFailed"])
                  /\ pc' = "failed"
                  /\ UNCHANGED <<intent, logged, attempts, timers, bytecode,
                                 buildInfo, info, encodedArgs, request, result>>
    /\ UNCHANGED <<cwd, store, name, address, args, fetches, posts, awaited, deployed,
                   replies>>
    /\ UNCHANGED unitVars

\* the steps of a flow that call() has started
Flow ==
    \/ VerifyDelay
    \/ RetrieveBytecode
    \/ LoadAndTrim
    \/ Match
    \/ Encode
    \/ Submit
    \/ PostDelay
    \/ Settle

Next ==
    \/ Call
    \/ Flow

Spec == Init /\ [][Next]_vars

\* every awaited network call and delay of a started flow completes
FairSpec == Spec /\ WF_vars(Flow)

----------------------------------------------------------------------------
(* Two flows side by side: two invocations of call() interleaved at their  *)
(* awaits, over one artifacts directory and one working directory.         *)

\* the artifacts directory: one build of the contracts A and B
PairStore ==
    <<[input |-> MkInput(<<[dir |-> "d1", file |-> "A"], [dir |-> "d1", file |-> "B"]>>,
                         <<>>, <<>>),
       contracts |-> <<[sourceName |-> [dir |-> "d1", file |-> "A"],
                        contractName |-> "A", code |-> "c1"],
                       [sourceName |-> [dir |-> "d1", file |-> "B"],
                        contractName |-> "B", code |-> "c1"]>>,
       solcVersion |-> "0.7.1"]>>

PairArgs == [encoded |-> TRUE, v |-> "args"]

\* verify() from getBuildInfos to the request of attemptVerification
PairRequest(fl) ==
    LET found == findBuildInfoWithContract(getBuildInfos(PairStore), fl.name)
    IN  IF ~found.ok THEN Throw(found.err)
        ELSE
        LET trimmed == trimmedBuildInfoInput(fl.name, found.val.input)
        IN  IF ~trimmed.ok THEN Throw(trimmed.err)
            ELSE
            LET bi == [found.val EXCEPT !.input = trimmed.input]
                src == findContractSourceName(bi, fl.name)
            IN  IF ~src.ok THEN Throw(src.err)
                ELSE
                LET ci == extractMatchingContractInformation(src.val, fl.name, bi, fl.bytecode)
                IN  IF ci = None
                    THEN Throw([type |-> "Error", what |-> "NoBytecodeMatch"])
                    ELSE
                    LET compilerInput ==
                            [bi.input EXCEPT !.settings.libraries = [links |-> "resolved"]]
                    IN  Return([contract_address |-> fl.address,
                                source_code |-> [i \in DOMAIN compilerInput.sources |->
                                    [content |-> compilerInput.sources[i].imports,
                                     file_name |-> compilerInput.sources[i].key]],
                                contract_name |-> ci.contractName,
                                version |-> ci.solcVersion,
                                args |-> PairArgs,
                                optimization |-> compilerInput.settings.optimizer.enabled,
                                runs |-> compilerInput.settings.optimizer.runs,
                                compiler_type |-> "solidity"])

\* call(name, address, ...) is invoked and calls verify()
PairCall(f) ==
    /\ flows[f].pc = "idle"
    /\ \E n \in ContractNames : \E a \in Addresses :
         flows' = [flows EXCEPT ![f] = [@ EXCEPT !.pc = "delay", !.name = n, !.address = a]]
    /\ UNCHANGED <<cwd, soloVars, fnVars>>

\* verify(): await delay(5000)
PairVerifyDelay(f) ==
    /\ flows[f].pc = "delay"
    /\ flows' = [flows EXCEPT ![f].pc = "getCode"]
    /\ UNCHANGED <<cwd, soloVars, fnVars>>

\* verify(): await retrieveContractBytecode; a rejection leaves call()
PairRetrieveBytecode(f) ==
    /\ flows[f].pc = "getCode"
    /\ \E answer \in Codes \cup {Absent} :
         LET r == retrieveContractBytecode(answer)
         IN  flows' = IF r.ok
                      THEN [flows EXCEPT ![f] = [@ EXCEPT !.pc = "prepare", !.bytecode = r.val]]
                      ELSE [flows EXCEPT ![f].pc = "failed"]
    /\ UNCHANGED <<cwd, soloVars, fnVars>>

\* verify(): from getBuildInfos to the await of getLongVersion
PairPrepare(f) ==
    /\ flows[f].pc = "prepare"
    /\ flows' = [flows EXCEPT ![f].pc = IF PairRequest(flows[f]).ok THEN "post" ELSE "failed"]
    /\ UNCHANGED <<cwd, soloVars, fnVars>>

\* attemptVerification() and verifyContract() up to the await of the POST:
\* the request is dumped to ./<contract_name>.json and sent
PairSubmit(f) ==
    /\ flows[f].pc = "post"
    /\ LET req == PairRequest(flows[f]).val
       IN  /\ cwd' = [cwd EXCEPT ![req.contract_name] = req]
           /\ flows' = [flows EXCEPT ![f] = [@ EXCEPT !.pc = "posting", !.request = req]]
    /\ UNCHANGED <<soloVars, fnVars>>

\* verifyContract(): the POST settles
PairReply(f) ==
    /\ flows[f].pc = "posting"
    /\ \E reply \in Replies :
         LET r == verifyContract(reply)
         IN  flows' = IF r.ok
                      THEN [flows EXCEPT ![f] = [@ EXCEPT !.pc = "postdelay", !.response = r.val]]
                      ELSE [flows EXCEPT ![f].pc = "failed"]
    /\ UNCHANGED <<cwd, soloVars, fnVars>>

\* attemptVerification(): await delay(5000); verify() returns and call()
\* goes on
PairSettle(f) ==
    /\ flows[f].pc = "postdelay"
    /\ LET branch == CallBranch(Fulfilled(flows[f].response), flows[f].intent)
       IN  flows' = CASE branch = "return" -> [flows EXCEPT ![f].pc = "succeeded"]
                      [] branch = "retry" ->
                           [flows EXCEPT ![f] = [@ EXCEPT !.pc = "delay", !.intent = @ + 1,
                                                          !.bytecode = NoCode,
                                                          !.request = None,
                                                          !.response = None]]
                      [] OTHER -> [flows EXCEPT ![f].pc = "failed"]
    /\ UNCHANGED <<cwd, soloVars, fnVars>>

PairNext ==
    \E f \in FlowIds :
        \/ PairCall(f)
        \/ PairVerifyDelay(f)
        \/ PairRetrieveBytecode(f)
        \/ PairPrepare(f)
        \/ PairSubmit(f)
        \/ PairReply(f)
        \/ PairSettle(f)

SpecPair == Init /\ [][PairNext]_vars

\* C21: two flows running side by side share no state that one writes and
\* the other observes or overwrites: while a flow awaits the service, the
\* request dump it wrote still holds its request.
C21_FlowsShareNothing ==
    \A f \in FlowIds :
        flows[f].pc \in {"posting", "postdelay"}
            => cwd[flows[f].request.contract_name] = flows[f].request

----------------------------------------------------------------------------
(* Properties of the verification flow.                                    *)

Terminal == {"succeeded", "failed"}

Last(q) == q[Len(q)]

IsPrefix(p, q) == Len(p) <= Len(q) /\ \A i \in DOMAIN p : p[i] = q[i]

\* the store holds a build of the contract whose code is c1 and whose
\* sources resolve
GoodStore ==
    LET found == findBuildInfoWithContract(getBuildInfos(store), name)
    IN  /\ found.ok
        /\ trimmedBuildInfoInput(name, found.val.input).ok

\* call() classifies the settled attempt as "bytecode missing in network"
ClassifiedAbsent(res) ==
    /\ ~res.threw
    /\ "isBytecodeMissingInNetworkError" \in Methods(res.value.class)
    /\ ~res.value.success
    /\ res.value.transient

\* the reply is a failure whose message is not the transient one
PermanentFailure(reply) ==
    reply.kind \in {"transport", "http", "rejected"} /\ ~reply.transient

\* C1: with a provider that answers "absent" to every fetch, the flow ends
\* failed after exactly MAX_VERIFICATION_INTENTS (3) attempts and never
\* starts a 4th.
C1_AbsentFailsAfterThreeAttempts ==
    (deployed # <<>> /\ \A i \in DOMAIN deployed : deployed[i] = Absent)
        => /\ attempts <= MAX_VERIFICATION_INTENTS
           /\ pc \in Terminal => pc = "failed" /\ attempts = MAX_VERIFICATION_INTENTS

\* C2: with a provider that answers absent, absent, present (and a store and
\* a service that accept the contract), the flow succeeds on the third
\* attempt after exactly two retry waits.
C2_SucceedsOnThirdAttempt ==
    (/\ pc \in Terminal
     /\ GoodStore
     /\ IsPrefix(deployed, <<Absent, Absent, "c1">>)
     /\ \A i \in DOMAIN replies : replies[i].kind = "ok")
        => pc = "succeeded" /\ attempts = 3 /\ timers = 2

\* C3: the flow starts attempting with attempt 1; a further attempt starts
\* only from an attempt classified as bytecode-absent with intent below
\* MAX_VERIFICATION_INTENTS; every other settled attempt ends the flow,
\* failed if verify() did not succeed.
C3_RetryOnlyAbsentBelowMax ==
    [][/\ pc = "idle" => pc' = "delay" /\ attempts' = 1 /\ intent' = 1
       /\ (pc # "idle" /\ attempts' > attempts) =>
             /\ pc = "settle"
             /\ ClassifiedAbsent(result)
             /\ intent < MAX_VERIFICATION_INTENTS
             /\ attempts' = attempts + 1
       /\ (pc = "settle"
             /\ ~(ClassifiedAbsent(result) /\ intent < MAX_VERIFICATION_INTENTS))
             => /\ pc' \in Terminal
                /\ result.threw => pc' = "failed"]_vars

C3_Witness ==
    /\ pc = "failed" /\ attempts = 1 /\ intent = 1
    /\ result.threw /\ result.err.what = "NoBytecodeMatch"

\* C4: when the service answers the POST with 2xx and success:true, call()
\* succeeds and resolves to the explorer URL of the address.
C4_SuccessReturnsURL ==
    (pc \in Terminal /\ replies # <<>> /\ Last(replies).kind = "ok")
        => pc = "succeeded" /\ outcome = Fulfilled(ContractURL(address))

\* C5: every flow that call() has started eventually reaches a terminal
\* state.
C5_Terminates == (pc # "idle") ~> (pc \in Terminal)

C5_Witness == pc \in Terminal /\ posts = 1 /\ awaited = 2

\* C6: after a submission failure that is not the transient one, the flow
\* makes no further fetch, POST or attempt, and ends failed.
C6_SubmissionFailureTerminal ==
    [][(replies # <<>> /\ PermanentFailure(Last(replies)))
         => /\ fetches' = fetches /\ posts' = posts /\ attempts' = attempts
            /\ pc = "settle" /\ pc' = "failed"]_vars

C6_Witness ==
    /\ pc = "failed" /\ replies # <<>>
    /\ Last(replies) = [kind |-> "http", transient |-> FALSE]

\* C7: a failure reply without the transient message is terminal; a failure
\* reply with the transient message below the attempt limit is followed by
\* another attempt, not by failure.
C7_TransientReplyRetried ==
    /\ \A i \in 1..(Len(replies) - 1) :
            replies[i].kind \in {"rejected", "http"} /\ replies[i].transient
    /\ (pc = "failed" /\ replies # <<>> /\ Last(replies).kind \in {"rejected", "http"})
        => ~(Last(replies).transient /\ attempts < MAX_VERIFICATION_INTENTS)

\* C8: when no build info holds the contract, no source name matches it, or
\* no bytecode matches, the error leaves call() on that attempt: no request
\* was sent in the attempt, no other attempt follows, and only an attempt
\* classified as bytecode-absent is ever followed by another.
C8_LocalErrorsPropagate ==
    [][/\ (pc # "idle" /\ attempts' > attempts) => ClassifiedAbsent(result)
       /\ (pc = "settle" /\ result.threw
             /\ result.err.what \in {"BuildInfoNotFound", "SourceNotFound", "NoBytecodeMatch"})
            => /\ request = None /\ request' = None
               /\ posts' = posts /\ attempts' = attempts
               /\ pc' = "failed" /\ outcome' = Rejected(result.err)]_vars

C8_Witness ==
    /\ pc = "failed" /\ posts = 0 /\ attempts = 1
    /\ outcome = Rejected([type |-> "Error", what |-> "SourceNotFound"])

\* C9: when the flow ends failed, what call() rejects with is the failure of
\* the last attempt, unchanged.
C9_ReportsLastFailure ==
    pc = "failed" => result.threw /\ outcome = Rejected(result.err)

\* C16: the args of the request are the ABI encoding of the constructor
\* arguments when these are raw values, and the arguments unchanged when
\* they are a pre-encoded string; the encoding precedes the request.
C16_RequestArgsEncoded ==
    request # None =>
        /\ encodedArgs # None
        /\ request.args = (IF args.encoded THEN args ELSE encodeArguments(args))

\* the sources of the build info of the contract, trimmed, as the entries of
\* a request
TrimmedSourceCode ==
    LET found == findBuildInfoWithContract(getBuildInfos(store), name).val
        t == trimmedBuildInfoInput(name, found.input).input.sources
    IN  [i \in DOMAIN t |-> [content |-> t[i].imports, file_name |-> t[i].key]]

\* C17: a request is sent only by an attempt that reached submission, one
\* per attempt, and its source_code holds the sources of the trimmed input,
\* one entry each, in the order of the trimmed input; the requests sent never
\* exceed the attempts.
C17_OneRequestOfTrimmedSources ==
    [][/\ posts' \in {posts, posts + 1}
       /\ posts' <= attempts'
       /\ posts' = posts + 1 =>
             /\ pc = "post" /\ pc' # "post"
             /\ posts = attempts - 1
             /\ request'.source_code = TrimmedSourceCode
             /\ Len(replies') = posts']_vars

\* one request was sent, with one source: trimming dropped the other one
C17_Witness ==
    /\ pc \in Terminal /\ posts = 1 /\ attempts = 1
    /\ request # None /\ Len(request.source_code) = 1
    /\ Len(store[1].input.sources) = 2

\* C18: once a build info is loaded and selected, neither trimming nor
\* submission changes its source mapping or its settings.
C18_LoadedRecordUnchanged ==
    buildInfo # None =>
        LET loaded == findBuildInfoWithContract(getBuildInfos(store), name).val
        IN  /\ buildInfo.input.sources = loaded.input.sources
            /\ buildInfo.input.settings = loaded.input.settings

\* C19: every attempt fetches the deployed bytecode once, after its delay:
\* the fetches are as many as the attempts started, and what an attempt
\* matches against is what its own fetch returned.
C19_FetchPerAttempt ==
    /\ pc = "idle" => fetches = 0 /\ attempts = 0
    /\ pc \in {"delay", "getCode"} => fetches = attempts - 1 /\ bytecode = NoCode
    /\ pc \notin {"idle", "delay", "getCode"} =>
          /\ fetches = attempts
          /\ Len(deployed) = attempts
    /\ pc \in {"load", "match", "links", "post", "postdelay"} =>
          bytecode = Last(deployed)
    /\ info # None => bytecode = Last(deployed)

C19_Witness ==
    /\ pc \in Terminal /\ attempts = 1 /\ fetches = 1
    /\ info # None /\ bytecode = deployed[1] /\ bytecode = "c1"

\* C22 as stated: the build infos are loaded, searched and trimmed before the
\* deployed bytecode is fetched, and a failure to find or trim the build info
\* is reported before the provider or the service is contacted.
C22_StagesInStatedOrder ==
    /\ bytecode # NoCode => buildInfo # None
    /\ (pc = "failed" /\ result.threw
          /\ result.err.what \in {"BuildInfoNotFound", "SourceNotFound", "ImportPathNoMatch"})
         => fetches = attempts - 1 /\ posts = 0

\* the successions of positions inside an attempt
StageEdges ==
    {<<"idle", "delay">>, <<"delay", "getCode">>,
     <<"getCode", "load">>, <<"getCode", "settle">>,
     <<"load", "match">>, <<"load", "settle">>,
     <<"match", "links">>, <<"match", "settle">>,
     <<"links", "post">>,
     <<"post", "postdelay">>, <<"post", "settle">>,
     <<"postdelay", "settle">>,
     <<"settle", "failed">>, <<"settle", "succeeded">>, <<"settle", "delay">>}

\* C22 amended: an attempt fetches the deployed bytecode first, then loads
\* the build infos, finds and trims the one of the contract, then matches,
\* then sends the request, each step after the one before it has completed;
\* a failed step ends the attempt, so no request is sent after a failure to
\* fetch, find, trim or match, and no build info is used after a failed fetch.
C22_FetchFirstThenStages ==
    [][/\ pc' # pc => <<pc, pc'>> \in StageEdges
       /\ fetches' # fetches => pc = "getCode" /\ buildInfo = None
       /\ (buildInfo = None /\ buildInfo' # None) =>
             pc = "load" /\ bytecode # NoCode /\ fetches = attempts
       /\ (info = None /\ info' # None) => pc = "match" /\ buildInfo # None
       /\ posts' # posts => pc = "post" /\ info # None /\ encodedArgs # None
       /\ (pc \in {"getCode", "load", "match"} /\ pc' = "settle") =>
             /\ result'.threw /\ request' = None /\ posts' = posts
             /\ pc = "getCode" => buildInfo' = None]_vars

\* no build info holds the contract: the failure is reported after the
\* provider was asked for the bytecode, and no request was sent
C22_Witness ==
    /\ pc = "failed" /\ result.threw /\ result.err.what = "BuildInfoNotFound"
    /\ fetches = 1 /\ attempts = 1 /\ posts = 0 /\ buildInfo = None

\* call() never takes its retry branch: no retry is logged, no delay is
\* started without being awaited, and verify() is invoked at most once
RetryNeverDecided ==
    /\ timers = 0 /\ logged = <<>>
    /\ attempts <= 1 /\ intent = 1
    /\ pc = "settle" => CallBranch(result, intent) \in {"propagate", "typeerror"}

----------------------------------------------------------------------------
(* Trimming applied to every bounded compiler input.                       *)

ClosureInit ==
    /\ \E ks \in KeySeqs(ClosureKeys, MaxSources) :
         \E flat \in SeqsUpTo(ClosurePaths, MaxImports) :
           \E own \in Mono(Len(flat), Len(ks)) :
             cInput = MkInput(ks, flat, own)
    /\ cName \in Files
    /\ cOut = None
    /\ cSeed = None /\ cRe = None
    /\ iStore = <<>> /\ iName = "A" /\ iOut = None
    /\ store = <<>> /\ name = "A" /\ address = "0xA1" /\ args = None
    /\ pc = "idle" /\ intent = 1 /\ logged = <<>> /\ attempts = 0
    /\ fetches = 0 /\ posts = 0 /\ awaited = 0 /\ timers = 0
    /\ deployed = <<>> /\ replies = <<>> /\ bytecode = NoCode
    /\ buildInfo = None /\ info = None /\ encodedArgs = None /\ request = None
    /\ result = None /\ outcome = None
    /\ cwd = NoFiles /\ flows = IdleFlows

Trim ==
    /\ cOut = None
    /\ cOut' = trimmedBuildInfoInput(cName, cInput)
    /\ UNCHANGED <<cInput, cName, cSeed, cRe, iStore, iName, iOut, flows>>
    /\ UNCHANGED callVars

\* getContractImportedSourceNames seeded at a source of the closure that
\* trimming computed, over the same compiler input
Reseed ==
    /\ cOut # None /\ cOut.ok
    /\ cRe = None
    /\ \E path \in cOut.names :
         /\ cSeed' = path
         /\ cRe' = getContractImportedSourceNames(path, cInput, Seed(path))
    /\ UNCHANGED <<cInput, cName, cOut, iStore, iName, iOut, flows>>
    /\ UNCHANGED callVars

ClosureNext ==
    \/ Trim
    \/ Reseed

SpecClosure == ClosureInit /\ [][ClosureNext]_vars

----------------------------------------------------------------------------
(* findBuildInfoWithContract applied to every bounded list of build infos. *)

IndexInit ==
    /\ iStore \in SeqsUpTo(BuildInfosOver(CallKeys, CallPaths, IndexMaxSources,
                                          IndexMaxImports), IndexMaxRecords)
    /\ iName \in ContractNames
    /\ iOut = None
    /\ cInput = None /\ cName = "A" /\ cOut = None
    /\ cSeed = None /\ cRe = None
    /\ store = <<>> /\ name = "A" /\ address = "0xA1" /\ args = None
    /\ pc = "idle" /\ intent = 1 /\ logged = <<>> /\ attempts = 0
    /\ fetches = 0 /\ posts = 0 /\ awaited = 0 /\ timers = 0
    /\ deployed = <<>> /\ replies = <<>> /\ bytecode = NoCode
    /\ buildInfo = None /\ info = None /\ encodedArgs = None /\ request = None
    /\ result = None /\ outcome = None
    /\ cwd = NoFiles /\ flows = IdleFlows

Find ==
    /\ iOut = None
    /\ iOut' = findBuildInfoWithContract(getBuildInfos(iStore), iName)
    /\ UNCHANGED <<cInput, cName, cOut, cSeed, cRe, iStore, iName, flows>>
    /\ UNCHANGED callVars

IndexNext == Find

SpecIndex == IndexInit /\ [][IndexNext]_vars

----------------------------------------------------------------------------
(* Properties of the import closure.                                       *)

\* the sources reached from S through the import directives that resolve
RECURSIVE ReachableFrom(_, _)
ReachableFrom(input, S) ==
    LET T == S \cup UNION {{r.val : r \in {q \in {getAbsoluteSourcePath(p, input) :
                                  p \in Range(ContentOf(input, k))} : q.ok}} : k \in S}
    IN  IF T = S THEN S ELSE ReachableFrom(input, T)

\* every import directive of the sources resolves to a source name
AllResolve(input, S) ==
    \A k \in S : \A p \in Range(ContentOf(input, k)) : getAbsoluteSourcePath(p, input).ok

\* A imports B and B imports A
Cyclic(input, a, b) ==
    /\ a # b
    /\ \E p \in Range(ContentOf(input, a)) : getAbsoluteSourcePath(p, input) = Return(b)
    /\ \E p \in Range(ContentOf(input, b)) : getAbsoluteSourcePath(p, input) = Return(a)

C11_ReseedSameClosure ==
    /\ (cOut # None /\ cOut.ok) => cOut.root \in cOut.names
    /\ cRe # None => cRe.ok /\ cRe.names = cOut.names

\* C11 amended: a closure that is returned contains its root; the closure
\* computed again from any of its sources is returned, contains that source
\* and is a subset of it, and is the same set when the root is reachable from
\* that source.
C11_ReseedSubClosure ==
    /\ (cOut # None /\ cOut.ok) => cOut.root \in cOut.names
    /\ cRe # None =>
          /\ cRe.ok
          /\ cSeed \in cRe.names
          /\ cRe.names \subseteq cOut.names
          /\ cRe.names = ReachableFrom(cInput, {cSeed})
          /\ cOut.root \in cRe.names => cRe.names = cOut.names

C11_Witness ==
    /\ cRe # None /\ cRe.ok
    /\ cSeed # cOut.root
    /\ cRe.names # cOut.names
    /\ cRe.names \subseteq cOut.names
    /\ Cardinality(cOut.names) = 3

\* the position of the source name k in the key sequence q
IndexOf(q, k) == CHOOSE i \in DOMAIN q : q[i] = k

\* C12: the keys of the trimmed mapping are keys of the original mapping,
\* each once and with its original entry, and any two of them are in the
\* same relative order as in the original mapping.
C12_TrimPreservesOrder ==
    (cOut # None /\ cOut.ok) =>
        LET t == SourceKeys(cOut.input)
            o == SourceKeys(cInput)
        IN  /\ Range(t) \subseteq Range(o)
            /\ NoDup(t)
            /\ \A i \in DOMAIN t : cOut.input.sources[i] = cInput.sources[IndexOf(o, t[i])]
            /\ \A i, j \in DOMAIN t : i < j => IndexOf(o, t[i]) < IndexOf(o, t[j])

\* the traversal parsed the kept sources in another order than the original
C12_Witness ==
    /\ cOut # None /\ cOut.ok
    /\ Len(cOut.input.sources) = 3
    /\ cOut.expanded # SourceKeys(cOut.input)
    /\ SourceKeys(cOut.input) = SourceKeys(cInput)

\* sources A, B, C in this order: A imports B, B and C import nothing
ScenarioInput ==
    MkInput(<<[dir |-> "d1", file |-> "A"], [dir |-> "d1", file |-> "B"],
              [dir |-> "d1", file |-> "C"]>>,
            <<[dir |-> "d1", file |-> "B"]>>, <<1>>)

C14_UniqueOrAmbiguous ==
    cOut # None =>
        LET hits == {i \in DOMAIN cInput.sources : cInput.sources[i].key.file = cName}
        IN  /\ hits = {} => ~cOut.ok /\ cOut.err.what = "SourceNotFound"
            /\ Cardinality(hits) = 1 => cOut.root = cInput.sources[Min(hits)].key
            /\ Cardinality(hits) > 1 => ~cOut.ok /\ cOut.err.what = "AmbiguousSource"

----------------------------------------------------------------------------
(* Properties of the build info lookup.                                    *)

\* the build info has a compiled contract of that name
Compiles(bi, contractName) ==
    \E j \in DOMAIN bi.contracts : bi.contracts[j].contractName = contractName

\* C15: findBuildInfoWithContract returns the first build info, in load
\* order, that has a compiled contract of the requested name; it fails, with
\* the not-found error, exactly when no build info has one.
C15_FirstRecordWithContract ==
    iOut # None =>
        LET hits == {i \in DOMAIN iStore : Compiles(iStore[i], iName)}
        IN  /\ ~iOut.ok <=> hits = {}
            /\ ~iOut.ok => iOut.err.what = "BuildInfoNotFound"
            /\ iOut.ok => /\ iOut.val = iStore[Min(hits)]
                          /\ Compiles(iOut.val, iName)

C15_Witness ==
    /\ iOut # None /\ iOut.ok
    /\ Len(iStore) = 2
    /\ Compiles(iStore[1], iName) /\ Compiles(iStore[2], iName)
    /\ iStore[1] # iStore[2]
    /\ iOut.val = iStore[1]

\* the source name is the first key of the input that has its file name
FirstOfItsFile(input, k) ==
    \A i, j \in DOMAIN input.sources :
        (input.sources[i].key = k /\ j < i) => input.sources[j].key.file # k.file

\* the sources of S import a path whose file name is that of k
ImportedByFile(input, S, k) ==
    \E s \in S : \E p \in Range(ContentOf(input, s)) : p.dir # NoDir /\ p.file = k.file

\* C24: every source a closure holds through an import is the first key, in
\* key order, that has the imported file name: of two keys with one file
\* name the later is never added through an import, and the earlier is added
\* by every import of that file name.
C24_ImportsResolveToFirstKey ==
    /\ (cOut # None /\ cOut.ok) =>
          /\ \A k \in cOut.names \ {cOut.root} : FirstOfItsFile(cInput, k)
          /\ \A k \in Range(SourceKeys(cInput)) :
                (FirstOfItsFile(cInput, k) /\ ImportedByFile(cInput, cOut.names, k))
                    => k \in cOut.names
    /\ (cRe # None /\ cRe.ok) =>
          \A k \in cRe.names \ {cSeed} : FirstOfItsFile(cInput, k)

\* B imports d1/A.sol while d2/A.sol is the earlier key: the closure holds
\* d2/A.sol and not d1/A.sol
C24_Witness ==
    /\ cOut # None /\ cOut.ok
    /\ cOut.root = [dir |-> "d1", file |-> "B"]
    /\ [dir |-> "d1", file |-> "A"] \in Range(ContentOf(cInput, cOut.root))
    /\ [dir |-> "d1", file |-> "A"] \in Range(SourceKeys(cInput))
    /\ [dir |-> "d2", file |-> "A"] \in cOut.names
    /\ [dir |-> "d1", file |-> "A"] \notin cOut.names

C26_TrimChangesOnlySources ==
    [][(cOut = None /\ cOut' # None) =>
          /\ cInput' = cInput
          /\ cOut'.ok =>
                /\ DOMAIN cOut'.input = DOMAIN cInput
                /\ cOut'.input.language = cInput.language
                /\ cOut'.input.settings = cInput.settings
                /\ cOut'.input.settings.optimizer = Settings.optimizer
                /\ \A i \in DOMAIN cOut'.input.sources :
                      \E j \in DOMAIN cInput.sources :
                          cOut'.input.sources[i] = cInput.sources[j]]_vars

\* trimming dropped a source and kept one that has an import
C26_Witness ==
    /\ cOut # None /\ cOut.ok
    /\ Len(cOut.input.sources) = 2 /\ Len(cInput.sources) = 3
    /\ \E i \in DOMAIN cOut.input.sources : cOut.input.sources[i].imports # <<>>
    /\ cOut.input.settings = cInput.settings

====
